---------------------------- MODULE Spec2Model ----------------------------
(***************************************************************************)
(* Euchre_Stats: the hand ledger, the scoring rules of the three hand      *)
(* entry forms, and the game lifecycle.                                    *)
(*                                                                         *)
(* The storage layer is the one app.py imports (database_firestore.py);    *)
(* database.py (SQLite) has the same add_hand / delete_last_hand logic and *)
(* differs only in how the next hand number is read.                       *)
(*                                                                         *)
(* Text values that the program parses (call values) are sequences of      *)
(* one-character strings, so that int(call_value) is computed and not      *)
(* assumed.  Names that are only compared are ordinary strings.            *)
(* An optional value (Python None) is <<>>, a present value x is <<x>>.    *)
(***************************************************************************)
EXTENDS Integers, Sequences, FiniteSets, TLC

VARIABLES
    games,       \* collection 'games': game id -> game document
    hands,       \* collection 'hands': set of hand documents
    nextGameId,  \* next identifier the store hands out for a game
    clock,       \* datetime.now(), as a logical clock
    last,        \* the operation that ran last, with its return value
    entry,       \* a raw hand entry typed into one of the three forms
    resolved,    \* what the form's scoring rules made of it
    pending,     \* st.session_state['pending_game_end']
    calls        \* the add_hand calls in progress, one per session

vars ==
    <<games, hands, nextGameId, clock, last, entry, resolved, pending, calls>>

-----------------------------------------------------------------------------
(* Bounds of the model *)

MaxHands == 3
MaxClock == 4
MaxPoints == 9

\* Identifiers the store hands out for games, in order.
GameIds == {1}

\* Browser sessions that may have an add_hand call in progress.
Sessions == {1, 2}

None == <<>>
Some(x) == <<x>>

\* A session with no call in progress.
Idle == [pc |-> "idle"]

-----------------------------------------------------------------------------
(* Text *)

ALONE == <<"A", "l", "o", "n", "e">>
PARTNER_BEST == <<"P", "a", "r", "t", "n", "e", "r", " ", "B", "e", "s", "t">>

Digit == {"0", "1", "2", "3", "4", "5", "6", "7", "8", "9"}

DigitVal(c) ==
    CASE c = "0" -> 0 [] c = "1" -> 1 [] c = "2" -> 2 [] c = "3" -> 3
      [] c = "4" -> 4 [] c = "5" -> 5 [] c = "6" -> 6 [] c = "7" -> 7
      [] c = "8" -> 8 [] c = "9" -> 9

Whitespace == {" ", "\t", "\n"}

RECURSIVE LStrip(_)
LStrip(s) ==
    IF s # <<>> /\ Head(s) \in Whitespace THEN LStrip(Tail(s)) ELSE s

RECURSIVE RStrip(_)
RStrip(s) ==
    IF s # <<>> /\ s[Len(s)] \in Whitespace
    THEN RStrip(SubSeq(s, 1, Len(s) - 1))
    ELSE s

Strip(s) == RStrip(LStrip(s))

\* The digits of a Python integer literal: digits, with single underscores
\* allowed between digits only.
WellFormedDigits(d) ==
    /\ d # <<>>
    /\ \A i \in 1..Len(d) : d[i] \in Digit \cup {"_"}
    /\ d[1] \in Digit
    /\ d[Len(d)] \in Digit
    /\ \A i \in 1..(Len(d) - 1) : ~(d[i] = "_" /\ d[i + 1] = "_")

RECURSIVE DigitsValue(_, _)
DigitsValue(d, acc) ==
    IF d = <<>> THEN acc
    ELSE IF Head(d) = "_" THEN DigitsValue(Tail(d), acc)
    ELSE DigitsValue(Tail(d), 10 * acc + DigitVal(Head(d)))

\* int(call_value): [ok |-> TRUE, val |-> n], or ok = FALSE for ValueError.
ParseInt(s) ==
    LET t == Strip(s)
        signed == t # <<>> /\ Head(t) \in {"+", "-"}
        body == IF signed THEN Tail(t) ELSE t
    IN  IF WellFormedDigits(body)
        THEN [ok |-> TRUE,
              val |-> IF signed /\ Head(t) = "-"
                      THEN 0 - DigitsValue(body, 0)
                      ELSE DigitsValue(body, 0)]
        ELSE [ok |-> FALSE, val |-> 0]

\* COMMON_CALL_VALUES of models.py, in order.
COMMON_CALL_VALUES ==
    << <<"3">>, <<"4">>, <<"5">>, <<"6">>, <<"7">>, <<"8">>, PARTNER_BEST, ALONE >>

\* call_options of the add-hand and edit-hand forms of the finished-games page.
call_options ==
    << <<"1">>, <<"2">>, <<"3">>, <<"4">>, ALONE, PARTNER_BEST >>

Range(f) == {f[i] : i \in DOMAIN f}

-----------------------------------------------------------------------------
(* Scoring rules of the three entry forms.  Each yields what is passed to    *)
(* the storage layer: is_euchre, other_team_points and points_to_record.     *)

Resolution(e, o, p) ==
    [is_euchre |-> e, other_team_points |-> o, points_to_record |-> p]

\* ResolveLogNumeric taking a call that is not a number for a call of 8.
ResolveLogNumeric_FallbackEight(call_value, points_scored) ==
    LET parsed == ParseInt(call_value)
        call_value_int == IF parsed.ok THEN parsed.val ELSE 8
        is_euchre == points_scored < call_value_int
    IN  Resolution(is_euchre,
                   IF is_euchre THEN 8 - points_scored ELSE 0,
                   IF is_euchre THEN call_value_int ELSE points_scored)

\* Log-hand form: a call that is neither Alone nor Partner Best.
ResolveLogNumeric(call_value, points_scored) ==
    LET parsed == ParseInt(call_value)
        call_value_int == IF parsed.ok THEN parsed.val ELSE points_scored
        is_euchre == points_scored < call_value_int
    IN  Resolution(is_euchre,
                   IF is_euchre THEN 8 - points_scored ELSE 0,
                   IF is_euchre THEN call_value_int ELSE points_scored)

\* ResolveLog with Alone succeeding on seven tricks.
ResolveLog_SevenTricks(call_value, points_scored) ==
    IF call_value = PARTNER_BEST
    THEN LET is_euchre == points_scored < 8
         IN  Resolution(is_euchre,
                        IF is_euchre THEN 8 - points_scored ELSE 0,
                        16)
    ELSE IF call_value = ALONE
    THEN LET is_euchre == points_scored < 7
         IN  Resolution(is_euchre,
                        IF is_euchre THEN 8 - points_scored ELSE 0,
                        8)
    ELSE ResolveLogNumeric(call_value, points_scored)

\* Log-hand form of the active-games page.
ResolveLog(call_value, points_scored) ==
    IF call_value = PARTNER_BEST
    THEN LET is_euchre == points_scored < 8
         IN  Resolution(is_euchre,
                        IF is_euchre THEN 8 - points_scored ELSE 0,
                        16)
    ELSE IF call_value = ALONE
    THEN LET is_euchre == points_scored < 8
         IN  Resolution(is_euchre,
                        IF is_euchre THEN 8 - points_scored ELSE 0,
                        8)
    ELSE ResolveLogNumeric(call_value, points_scored)

\* Add-hand form of the finished-games page.
ResolveAdd(new_call_value, new_points) ==
    IF new_call_value = ALONE
    THEN IF new_points = 8
         THEN Resolution(FALSE, 0, 8)
         ELSE Resolution(TRUE, 8 - new_points, 8)
    ELSE IF new_call_value = PARTNER_BEST
    THEN IF new_points = 8
         THEN Resolution(FALSE, 0, 16)
         ELSE Resolution(TRUE, 8 - new_points, 16)
    ELSE LET call_int == ParseInt(new_call_value).val
         IN  IF new_points < call_int
             THEN Resolution(TRUE, 8 - new_points, call_int * 2)
             ELSE Resolution(FALSE, 0, new_points)

\* Edit-hand form of the finished-games page.
ResolveEdit(edit_call_value, edit_points) ==
    IF edit_call_value = ALONE
    THEN IF edit_points = 8
         THEN Resolution(FALSE, 0, 8)
         ELSE Resolution(TRUE, 8 - edit_points, 8)
    ELSE IF edit_call_value = PARTNER_BEST
    THEN IF edit_points = 8
         THEN Resolution(FALSE, 0, 16)
         ELSE Resolution(TRUE, 8 - edit_points, 16)
    ELSE LET call_int == ParseInt(edit_call_value).val
         IN  IF edit_points < call_int
             THEN Resolution(TRUE, 8 - edit_points, call_int * 2)
             ELSE Resolution(FALSE, 0, edit_points)

\* The largest value the points field of the add/edit forms accepts.
max_val(call_value) ==
    IF call_value = ALONE THEN 8
    ELSE IF call_value = PARTNER_BEST THEN 8
    ELSE ParseInt(call_value).val * 2

\* The caller's team, from the rosters of the game.
CallerTeam(game, caller_name) ==
    IF caller_name \in Range(game.team1_players) THEN "team1" ELSE "team2"

-----------------------------------------------------------------------------
(* Storage layer: documents *)

\* The game document written by create_game.
NewGame(target_score, now) ==
    [team1_name |-> "Team 1",
     team2_name |-> "Team 2",
     team1_players |-> <<"Alice">>,
     team2_players |-> <<"Dave">>,
     team1_score |-> 0,
     team2_score |-> 0,
     target_score |-> target_score,
     status |-> "active",
     winner |-> None,
     created_at |-> now,
     finished_at |-> None]

RECURSIVE SortByHandNumber(_)
SortByHandNumber(S) ==
    IF S = {} THEN <<>>
    ELSE LET h == CHOOSE x \in S : \A y \in S : x.hand_number <= y.hand_number
         IN  <<h>> \o SortByHandNumber(S \ {h})

\* get_hands: the hands of a game, ordered by hand_number.
get_hands(game_id) ==
    SortByHandNumber({h \in hands : h.game_id = game_id})

\* The identifier the store gives a new hand document: one not in use.
NewHandId ==
    LET used == {h.id : h \in hands}
    IN  CHOOSE i \in 1..(Cardinality(hands) + 1) :
            /\ i \notin used
            /\ \A j \in 1..(i - 1) : j \in used

\* NextHandNumber counting from zero.
NextHandNumber_ZeroBased(hs) == Len(hs)

\* add_hand: hand_number = len(hands) + 1.
NextHandNumber(hs) == Len(hs) + 1

\* add_hand: <<team1_delta, team2_delta>> from caller team and euchre status.
\* HandDeltas giving the other team nothing on an euchre.
HandDeltas_NoCredit(caller_team, points_scored, is_euchre, other_team_points) ==
    IF is_euchre
    THEN IF caller_team = "team1"
         THEN <<0 - points_scored, 0>>
         ELSE <<0, 0 - points_scored>>
    ELSE IF caller_team = "team1"
         THEN <<points_scored, 0>>
         ELSE <<0, points_scored>>

HandDeltas(caller_team, points_scored, is_euchre, other_team_points) ==
    IF is_euchre
    THEN IF caller_team = "team1"
         THEN <<0 - points_scored, other_team_points>>
         ELSE <<other_team_points, 0 - points_scored>>
    ELSE IF caller_team = "team1"
         THEN <<points_scored, 0>>
         ELSE <<0, points_scored>>

\* update_game_scores setting the status back to active as well.
update_game_scores_Reopens(gs, game_id, team1_score, team2_score) ==
    [gs EXCEPT ![game_id].team1_score = team1_score,
               ![game_id].team2_score = team2_score,
               ![game_id].status = "active"]

update_game_scores(gs, game_id, team1_score, team2_score) ==
    [gs EXCEPT ![game_id].team1_score = team1_score,
               ![game_id].team2_score = team2_score]

\* finish_game without the finished_at stamp.
finish_game_NoStamp(gs, game_id, winner, now) ==
    [gs EXCEPT ![game_id].status = "finished",
               ![game_id].winner = Some(winner)]

finish_game(gs, game_id, winner, now) ==
    [gs EXCEPT ![game_id].status = "finished",
               ![game_id].winner = Some(winner),
               ![game_id].finished_at = Some(now)]

\* Cumulative with team 2 starting over from its delta.
Cumulative_Team2FromZero(game, delta) ==
    <<game.team1_score + delta[1], delta[2]>>

\* add_hand: <<team1_cumulative, team2_cumulative>> of the new hand.
Cumulative(game, delta) ==
    <<game.team1_score + delta[1], game.team2_score + delta[2]>>

\* FinishCheck with the target to be exceeded, not reached.
FinishCheck_Strict(game, team1_cumulative, team2_cumulative) ==
    IF team1_cumulative > game.target_score THEN Some(game.team1_name)
    ELSE IF team2_cumulative > game.target_score THEN Some(game.team2_name)
    ELSE None

\* add_hand: the winner to finish the game with, or None to leave it as it is.
FinishCheck(game, team1_cumulative, team2_cumulative) ==
    IF team1_cumulative >= game.target_score THEN Some(game.team1_name)
    ELSE IF team2_cumulative >= game.target_score THEN Some(game.team2_name)
    ELSE None

\* ScoresAfterDelete reading the hand that was removed.
ScoresAfterDelete_Removed(hs) ==
    IF Len(hs) > 1
    THEN <<hs[Len(hs)].team1_cumulative, hs[Len(hs)].team2_cumulative>>
    ELSE <<0, 0>>

\* delete_last_hand: the game scores after the last of hs is removed.
ScoresAfterDelete(hs) ==
    IF Len(hs) > 1
    THEN <<hs[Len(hs) - 1].team1_cumulative, hs[Len(hs) - 1].team2_cumulative>>
    ELSE <<0, 0>>

\* Reactivate leaving the winner in place.
Reactivate_KeepWinner(gs, game_id) ==
    IF gs[game_id].status = "finished"
    THEN [gs EXCEPT ![game_id].status = "active",
                    ![game_id].finished_at = None]
    ELSE gs

\* delete_last_hand: a finished game is made active again.
Reactivate(gs, game_id) ==
    IF gs[game_id].status = "finished"
    THEN [gs EXCEPT ![game_id].status = "active",
                    ![game_id].winner = None,
                    ![game_id].finished_at = None]
    ELSE gs

Ran(op, game_id, ret, was) ==
    [op |-> op, game_id |-> game_id, ret |-> ret, was |-> was]

StatusOf(game_id) ==
    IF game_id \in DOMAIN games THEN games[game_id].status ELSE "none"

-----------------------------------------------------------------------------
(* Storage layer: operations.  Each runs alone (one writer per game).      *)
(* The confirm button and the add-hand form pass add_hand a keyword,        *)
(* auto_finish, that add_hand does not declare; the operation below is      *)
(* add_hand as the storage module writes it, whose check for the end of     *)
(* the game runs on every call.                                             *)

create_game(target_score) ==
    /\ nextGameId \in GameIds
    /\ clock < MaxClock
    /\ games' = [id \in DOMAIN games \cup {nextGameId} |->
                    IF id = nextGameId THEN NewGame(target_score, clock)
                    ELSE games[id]]
    /\ nextGameId' = nextGameId + 1
    /\ clock' = clock + 1
    /\ last' = Ran("create_game", nextGameId, "ok", "none")
    /\ UNCHANGED hands

add_hand(game_id, caller_name, caller_team, call_value, points_scored, is_euchre, other_team_points, notes) ==
    IF game_id \notin DOMAIN games
    THEN /\ last' = Ran("add_hand", game_id, "ValueError", "none")
         /\ UNCHANGED <<games, hands, nextGameId, clock>>
    ELSE
    /\ Cardinality(hands) < MaxHands
    /\ LET game == games[game_id]
           hand_number == NextHandNumber(get_hands(game_id))
           delta == HandDeltas(caller_team, points_scored, is_euchre,
                               other_team_points)
           team1_cumulative == Cumulative(game, delta)[1]
           team2_cumulative == Cumulative(game, delta)[2]
           hand_data ==
               [id |-> NewHandId,
                game_id |-> game_id,
                hand_number |-> hand_number,
                caller_name |-> caller_name,
                caller_team |-> caller_team,
                call_value |-> call_value,
                points_scored |-> points_scored,
                is_euchre |-> is_euchre,
                other_team_points |-> other_team_points,
                team1_delta |-> delta[1],
                team2_delta |-> delta[2],
                team1_cumulative |-> team1_cumulative,
                team2_cumulative |-> team2_cumulative,
                notes |-> notes]
           scored == update_game_scores(games, game_id, team1_cumulative,
                                        team2_cumulative)
           winner == FinishCheck(game, team1_cumulative, team2_cumulative)
       IN  /\ hands' = hands \cup {hand_data}
           /\ IF winner # None
              THEN /\ clock < MaxClock
                   /\ games' = finish_game(scored, game_id, winner[1], clock)
                   /\ clock' = clock + 1
              ELSE /\ games' = scored
                   /\ clock' = clock
           /\ last' = Ran("add_hand", game_id, "ok", game.status)
    /\ UNCHANGED nextGameId

\* max_hand taken over the hands of every game.
max_hand_AllGames(game_id) ==
    LET numbers == {h.hand_number : h \in hands}
    IN  IF numbers = {} THEN 0
        ELSE CHOOSE n \in numbers : \A m \in numbers : m <= n

\* The SQLite backend's add_hand:
\* SELECT COALESCE(MAX(hand_number), 0) FROM hands WHERE game_id = ?
max_hand(game_id) ==
    LET numbers == {h.hand_number : h \in {k \in hands : k.game_id = game_id}}
    IN  IF numbers = {} THEN 0
        ELSE CHOOSE n \in numbers : \A m \in numbers : m <= n

\* DeleteHand removing by hand_number.
DeleteHand_ByNumber(last_hand) ==
    {h \in hands : h.hand_number # last_hand.hand_number}

\* delete_last_hand: the hands left when the document of last_hand is deleted.
DeleteHand(last_hand) ==
    {h \in hands : h.id # last_hand.id}

\* delete_last_hand, for a game whose hands hs are not empty.
RemoveLastHand(game_id, hs) ==
    LET last_hand == hs[Len(hs)]
        new_scores == ScoresAfterDelete(hs)
    IN  /\ hands' = DeleteHand(last_hand)
        /\ games' = Reactivate(
               update_game_scores(games, game_id, new_scores[1],
                                  new_scores[2]),
               game_id)
        /\ last' = Ran("delete_last_hand", game_id, "True",
                       StatusOf(game_id))
        /\ UNCHANGED <<nextGameId, clock>>

\* delete_last_hand reporting True for a game without hands.
delete_last_hand_TrueOnEmpty(game_id) ==
    LET hs == get_hands(game_id)
    IN  IF hs = <<>>
        THEN /\ last' = Ran("delete_last_hand", game_id, "True",
                            StatusOf(game_id))
             /\ UNCHANGED <<games, hands, nextGameId, clock>>
        ELSE RemoveLastHand(game_id, hs)

delete_last_hand(game_id) ==
    LET hs == get_hands(game_id)
    IN  IF hs = <<>>
        THEN /\ last' = Ran("delete_last_hand", game_id, "False",
                            StatusOf(game_id))
             /\ UNCHANGED <<games, hands, nextGameId, clock>>
        ELSE RemoveLastHand(game_id, hs)

\* delete_game deleting the game document only.
delete_game_KeepHands(game_id) ==
    /\ games' = [id \in DOMAIN games \ {game_id} |-> games[id]]
    /\ last' = Ran("delete_game", game_id, "None", StatusOf(game_id))
    /\ UNCHANGED <<hands, nextGameId, clock>>

\* delete_game: the deletes go through whether or not the game exists, and
\* the call returns nothing.
delete_game(game_id) ==
    /\ hands' = {h \in hands : h.game_id # game_id}
    /\ games' = [id \in DOMAIN games \ {game_id} |-> games[id]]
    /\ last' = Ran("delete_game", game_id, "None", StatusOf(game_id))
    /\ UNCHANGED <<nextGameId, clock>>

-----------------------------------------------------------------------------
(* update_hand and the recalculation it runs.  The finished-games page      *)
(* calls db.update_hand, which the storage modules at hand do not define;   *)
(* it is written here from the design document (sections 4.2 to 4.4).       *)

\* FoldCumulative leaving the stored cumulative pairs as they are.
FoldCumulative_KeepStored(hs, t1, t2) == hs

RECURSIVE FoldCumulative(_, _, _)
FoldCumulative(hs, t1, t2) ==
    IF hs = <<>> THEN <<>>
    ELSE LET h == Head(hs)
             c1 == t1 + h.team1_delta
             c2 == t2 + h.team2_delta
         IN  <<[h EXCEPT !.team1_cumulative = c1, !.team2_cumulative = c2]>>
             \o FoldCumulative(Tail(hs), c1, c2)

\* LifecycleCheck stamping finished_at whenever the target is reached.
LifecycleCheck_Restamp(game, now) ==
    LET s1 == game.team1_score
        s2 == game.team2_score
        reached == s1 >= game.target_score \/ s2 >= game.target_score
    IN  IF reached
        THEN [game EXCEPT !.status = "finished",
                          !.winner = Some(IF s1 >= s2 THEN game.team1_name
                                          ELSE game.team2_name),
                          !.finished_at = Some(now)]
        ELSE IF game.status = "finished"
        THEN [game EXCEPT !.status = "active",
                          !.winner = None,
                          !.finished_at = None]
        ELSE game

\* Section 4.3: the transition check, with the repair back to active.
LifecycleCheck(game, now) ==
    LET s1 == game.team1_score
        s2 == game.team2_score
        reached == s1 >= game.target_score \/ s2 >= game.target_score
    IN  IF reached /\ game.status = "active"
        THEN [game EXCEPT !.status = "finished",
                          !.winner = Some(IF s1 >= s2 THEN game.team1_name
                                          ELSE game.team2_name),
                          !.finished_at = Some(now)]
        ELSE IF ~reached /\ game.status = "finished"
        THEN [game EXCEPT !.status = "active",
                          !.winner = None,
                          !.finished_at = None]
        ELSE game

\* Section 4.4: fold the deltas over the hands of the game, write the
\* cumulative pairs back, set the game scores, run the transition check.
Recalculate(gs, hs, game_id, now) ==
    LET folded == FoldCumulative(hs, 0, 0)
        s == IF folded = <<>> THEN <<0, 0>>
             ELSE <<folded[Len(folded)].team1_cumulative,
                    folded[Len(folded)].team2_cumulative>>
        scored == update_game_scores(gs, game_id, s[1], s[2])
    IN  [hands |-> Range(folded),
         games |-> [scored EXCEPT ![game_id] = LifecycleCheck(@, now)]]

\* FindHand looking the hand up by its id alone.
FindHand_AnyGame(hand_id, game_id) ==
    {h \in hands : h.id = hand_id}

\* Section 4.2: the hand to update, if it belongs to the stated game.
FindHand(hand_id, game_id) ==
    {h \in hands : h.id = hand_id /\ h.game_id = game_id}

\* What update_hand leaves in 'last': the call and the hand it named.
RanUpdate(hand_id, game_id, ret) ==
    [op |-> "update_hand", game_id |-> game_id, ret |-> ret,
     was |-> StatusOf(game_id), hand_id |-> hand_id]

update_hand(hand_id, game_id, caller_name, caller_team, call_value, points_scored, is_euchre, other_team_points, notes) ==
    LET found == FindHand(hand_id, game_id)
    IN  IF found = {} \/ game_id \notin DOMAIN games
        THEN /\ last' = RanUpdate(hand_id, game_id, "False")
             /\ UNCHANGED <<games, hands, nextGameId, clock>>
        ELSE LET old == CHOOSE h \in found : TRUE
                 delta == HandDeltas(caller_team, points_scored, is_euchre,
                                     other_team_points)
                 new == [old EXCEPT !.caller_name = caller_name,
                                    !.caller_team = caller_team,
                                    !.call_value = call_value,
                                    !.points_scored = points_scored,
                                    !.is_euchre = is_euchre,
                                    !.other_team_points = other_team_points,
                                    !.team1_delta = delta[1],
                                    !.team2_delta = delta[2],
                                    !.notes = notes]
                 mine == {h \in hands : h.game_id = game_id}
                 hs == SortByHandNumber((mine \ {old}) \cup {new})
                 out == Recalculate(games, hs, game_id, clock)
                 stamped == out.games[game_id].finished_at = Some(clock)
             IN  /\ stamped => clock < MaxClock
                 /\ hands' = (hands \ mine) \cup out.hands
                 /\ games' = out.games
                 /\ clock' = IF stamped THEN clock + 1 ELSE clock
                 /\ last' = RanUpdate(hand_id, game_id, "True")
                 /\ UNCHANGED nextGameId

-----------------------------------------------------------------------------
(* What the operator enters *)

HandIds == 1..MaxHands

TargetScores == {5, 10}

AllPlayers(game) == Range(game.team1_players \o game.team2_players)

Notes == {None}

\* Entries of the log-hand form: <<call value, points scored by caller>>.
\* The call is one of COMMON_CALL_VALUES or typed in as free text.
LogEntries ==
    { << <<"4">>, 5 >>, << ALONE, 6 >>, << <<"3">>, 3 >> }

\* The one entry of the log-hand form used where two sessions or two games
\* are at work.
CallEntries ==
    { << <<"4">>, 5 >> }

\* Entries of the add-hand and edit-hand forms: the call is one of
\* call_options, the points are at most max_val.
AddEntries ==
    { << <<"3">>, 1 >>, << PARTNER_BEST, 8 >> }

EditEntries ==
    { << ALONE, 3 >> }

-----------------------------------------------------------------------------
(* Operations of the ledger, each with the form that feeds it *)

CreateGame ==
    /\ \E target_score \in TargetScores : create_game(target_score)
    /\ UNCHANGED <<entry, resolved, pending, calls>>

\* Log-hand form: <<new_team1_score, new_team2_score>>, what the scores
\* would be with the hand.
NewScores(game, caller_team, points_to_record, is_euchre, other_team_points) ==
    IF is_euchre
    THEN IF caller_team = "team1"
         THEN <<game.team1_score - points_to_record,
                game.team2_score + other_team_points>>
         ELSE <<game.team1_score + other_team_points,
                game.team2_score - points_to_record>>
    ELSE IF caller_team = "team1"
         THEN <<game.team1_score + points_to_record, game.team2_score>>
         ELSE <<game.team1_score, game.team2_score + points_to_record>>

\* WouldEndGame looking at team 1 only.
WouldEndGame_Team1Only(game, new_scores) ==
    new_scores[1] >= game.target_score

\* Log-hand form: would_end_game.
WouldEndGame(game, new_scores) ==
    new_scores[1] >= game.target_score \/ new_scores[2] >= game.target_score

\* Log-hand form: the value stored in st.session_state['pending_game_end'].
PendingGameEnd(game_id, game, caller_name, caller_team, call_value, r, notes, new_scores) ==
    LET team1_wins == new_scores[1] >= game.target_score
    IN  [game_id |-> game_id,
         caller_name |-> caller_name,
         caller_team |-> caller_team,
         call_value |-> call_value,
         points_to_record |-> r.points_to_record,
         is_euchre |-> r.is_euchre,
         other_team_points |-> r.other_team_points,
         notes |-> notes,
         winner |-> IF team1_wins THEN game.team1_name ELSE game.team2_name,
         winning_score |-> IF team1_wins THEN new_scores[1]
                           ELSE new_scores[2],
         losing_score |-> IF team1_wins THEN new_scores[2]
                          ELSE new_scores[1]]

\* Log-hand form of the active-games page, for the entries given: a hand
\* that would end the game is kept for confirmation, any other hand goes to
\* add_hand.
LogHandFrom(entries) ==
    /\ \E game_id \in DOMAIN games, e \in entries, notes \in Notes :
         /\ games[game_id].status = "active"
         /\ e[1] # <<>>
         /\ \E caller_name \in AllPlayers(games[game_id]) :
              LET game == games[game_id]
                  caller_team == CallerTeam(game, caller_name)
                  r == ResolveLog(e[1], e[2])
                  new_scores == NewScores(game, caller_team,
                                          r.points_to_record, r.is_euchre,
                                          r.other_team_points)
              IN  IF WouldEndGame(game, new_scores)
                  THEN /\ pending' = Some(PendingGameEnd(
                                         game_id, game, caller_name,
                                         caller_team, e[1], r, notes,
                                         new_scores))
                       /\ last' = Ran("pending_game_end", game_id, "rerun",
                                      game.status)
                       /\ UNCHANGED <<games, hands, nextGameId, clock>>
                  ELSE /\ add_hand(game_id, caller_name, caller_team, e[1],
                                   r.points_to_record, r.is_euchre,
                                   r.other_team_points, notes)
                       /\ pending' = pending
    /\ UNCHANGED <<entry, resolved, calls>>

LogHand == LogHandFrom(LogEntries)

\* The pending hand is shown: it is for a game the active-games page lists.
PendingShown ==
    /\ pending # None
    /\ pending[1].game_id \in DOMAIN games
    /\ games[pending[1].game_id].status = "active"

\* "Confirm End Game": the pending hand goes to add_hand.
ConfirmEndGame ==
    /\ PendingShown
    /\ add_hand(pending[1].game_id, pending[1].caller_name,
                pending[1].caller_team, pending[1].call_value,
                pending[1].points_to_record, pending[1].is_euchre,
                pending[1].other_team_points, pending[1].notes)
    /\ pending' = None
    /\ UNCHANGED <<entry, resolved, calls>>

\* CancelEndGame writing the previewed scores to the game.
CancelEndGame_WritesPreview ==
    /\ PendingShown
    /\ pending' = None
    /\ games' = update_game_scores(games, pending[1].game_id,
                                   pending[1].winning_score,
                                   pending[1].losing_score)
    /\ last' = Ran("cancel", pending[1].game_id, "rerun",
                   games[pending[1].game_id].status)
    /\ UNCHANGED <<hands, nextGameId, clock, entry, resolved, calls>>

\* "Cancel / Go Back": the pending hand is dropped.
CancelEndGame ==
    /\ PendingShown
    /\ pending' = None
    /\ last' = Ran("cancel", pending[1].game_id, "rerun",
                   games[pending[1].game_id].status)
    /\ UNCHANGED <<games, hands, nextGameId, clock, entry, resolved, calls>>

\* Add-hand form of the finished-games page, then add_hand.
AddHandFinished ==
    /\ \E game_id \in DOMAIN games, e \in AddEntries, notes \in Notes :
         /\ games[game_id].status = "finished"
         /\ e[1] \in Range(call_options)
         /\ e[2] \in 0..max_val(e[1])
         /\ \E new_caller \in AllPlayers(games[game_id]) :
              LET r == ResolveAdd(e[1], e[2])
              IN  add_hand(game_id, new_caller,
                           CallerTeam(games[game_id], new_caller), e[1],
                           r.points_to_record, r.is_euchre,
                           r.other_team_points, notes)
    /\ UNCHANGED <<entry, resolved, pending, calls>>

UndoLastHand ==
    /\ \E game_id \in DOMAIN games \cup GameIds : delete_last_hand(game_id)
    /\ UNCHANGED <<entry, resolved, pending, calls>>

\* Edit-hand form of the finished-games page, then update_hand.
EditHand ==
    /\ \E game_id \in DOMAIN games, hand_id \in HandIds, e \in EditEntries,
          notes \in Notes :
         /\ games[game_id].status = "finished"
         /\ e[1] \in Range(call_options)
         /\ e[2] \in 0..max_val(e[1])
         /\ \E edit_caller \in AllPlayers(games[game_id]) :
              LET r == ResolveEdit(e[1], e[2])
              IN  update_hand(hand_id, game_id, edit_caller,
                              CallerTeam(games[game_id], edit_caller), e[1],
                              r.points_to_record, r.is_euchre,
                              r.other_team_points, notes)
    /\ UNCHANGED <<entry, resolved, pending, calls>>

DeleteGame ==
    /\ \E game_id \in DOMAIN games : delete_game(game_id)
    /\ UNCHANGED <<entry, resolved, pending, calls>>

Init ==
    /\ games = <<>>
    /\ hands = {}
    /\ nextGameId = 1
    /\ clock = 0
    /\ last = Ran("none", 0, "none", "none")
    /\ entry = None
    /\ resolved = None
    /\ pending = None
    /\ calls = [p \in Sessions |-> Idle]

Next ==
    \/ CreateGame
    \/ LogHand
    \/ ConfirmEndGame
    \/ CancelEndGame
    \/ AddHandFinished
    \/ UndoLastHand
    \/ EditHand
    \/ DeleteGame

Spec == Init /\ [][Next]_vars

-----------------------------------------------------------------------------
(* Two games side by side on the active-games page: the store after        *)
(* create_game has run twice.                                               *)

TwoGames == {1, 2}

TwoGamesInit ==
    /\ games = [id \in TwoGames |-> NewGame(10, id - 1)]
    /\ hands = {}
    /\ nextGameId = 3
    /\ clock = 2
    /\ last = Ran("create_game", 2, "ok", "none")
    /\ entry = None
    /\ resolved = None
    /\ pending = None
    /\ calls = [p \in Sessions |-> Idle]

LogHandTwoGames == LogHandFrom(CallEntries)

TwoGamesNext ==
    \/ LogHandTwoGames
    \/ ConfirmEndGame
    \/ CancelEndGame
    \/ UndoLastHand
    \/ DeleteGame

TwoGamesSpec == TwoGamesInit /\ [][TwoGamesNext]_vars

\* Two games, with the edit-hand form of the finished-games page.
TwoGamesEditNext ==
    \/ LogHandTwoGames
    \/ ConfirmEndGame
    \/ EditHand

TwoGamesEditSpec == TwoGamesInit /\ [][TwoGamesEditNext]_vars

-----------------------------------------------------------------------------
(* The lists of games the pages show, as sequences of game ids. *)

\* games.sort(key=lambda g: g.get('created_at', ''), reverse=True)
RECURSIVE SortByCreatedAtDesc(_)
SortByCreatedAtDesc(S) ==
    IF S = {} THEN <<>>
    ELSE LET first == CHOOSE id \in S :
                          \A o \in S :
                              games[o].created_at <= games[id].created_at
         IN  <<first>> \o SortByCreatedAtDesc(S \ {first})

get_active_games ==
    SortByCreatedAtDesc({id \in DOMAIN games : games[id].status = "active"})

get_finished_games ==
    SortByCreatedAtDesc({id \in DOMAIN games :
                            games[id].status = "finished"})

\* Two games to 5 side by side: each is finished by one hand.
TwoShortGamesInit ==
    /\ games = [id \in TwoGames |-> NewGame(5, id - 1)]
    /\ hands = {}
    /\ nextGameId = 3
    /\ clock = 2
    /\ last = Ran("create_game", 2, "ok", "none")
    /\ entry = None
    /\ resolved = None
    /\ pending = None
    /\ calls = [p \in Sessions |-> Idle]

TwoShortGamesNext ==
    \/ LogHandTwoGames
    \/ ConfirmEndGame
    \/ CancelEndGame
    \/ UndoLastHand

TwoShortGamesSpec == TwoShortGamesInit /\ [][TwoShortGamesNext]_vars

-----------------------------------------------------------------------------
(* One game to 10 on the active-games page: the store after create_game     *)
(* has run once with target_score = 10.                                     *)

GameToTenInit ==
    /\ games = [id \in {1} |-> NewGame(10, 0)]
    /\ hands = {}
    /\ nextGameId = 2
    /\ clock = 1
    /\ last = Ran("create_game", 1, "ok", "none")
    /\ entry = None
    /\ resolved = None
    /\ pending = None
    /\ calls = [p \in Sessions |-> Idle]

GameToTenNext ==
    \/ LogHand
    \/ ConfirmEndGame
    \/ CancelEndGame

GameToTenSpec == GameToTenInit /\ [][GameToTenNext]_vars

-----------------------------------------------------------------------------
(* Undo pressed until it reports that nothing is left.  'entry' holds the   *)
(* run: the game, the number k of hands it had at the start, the number of  *)
(* True returns so far, and whether False has been returned.                *)

UndoRun(game_id, k, trues, done, was) ==
    [game_id |-> game_id, k |-> k, trues |-> trues, done |-> done,
     was |-> was]

\* A run of undos starts on a game.
StartUndoing ==
    /\ entry = None
    /\ \E game_id \in DOMAIN games :
         entry' = Some(UndoRun(game_id, Len(get_hands(game_id)), 0, FALSE,
                               games[game_id].status))
    /\ UNCHANGED <<games, hands, nextGameId, clock, last, resolved, pending, calls>>

\* delete_last_hand once more, until it has returned False.
UndoAgain ==
    /\ entry # None
    /\ ~entry[1].done
    /\ entry[1].trues <= entry[1].k
    /\ delete_last_hand(entry[1].game_id)
    /\ entry' = Some([entry[1] EXCEPT
                         !.trues = IF last'.ret = "True" THEN @ + 1 ELSE @,
                         !.done = last'.ret = "False"])
    /\ UNCHANGED <<resolved, pending, calls>>

\* Entries of the log-hand form before a run of undos: a call that is
\* made and an Alone call that is euchred.
UndoRunEntries ==
    { << <<"4">>, 5 >>, << ALONE, 6 >> }

\* Hands are logged on a game to 10, on the active-games page and once it
\* is finished on the finished-games page, until a run of undos starts.
RepeatedUndoNext ==
    \/ entry = None /\ LogHandFrom(UndoRunEntries)
    \/ entry = None /\ ConfirmEndGame
    \/ entry = None /\ CancelEndGame
    \/ entry = None /\ AddHandFinished
    \/ StartUndoing
    \/ UndoAgain

RepeatedUndoSpec ==
    GameToTenInit /\ [][RepeatedUndoNext]_vars /\ WF_vars(UndoAgain)

-----------------------------------------------------------------------------
(* The storage layer called directly: a page drawn before another session  *)
(* deleted its game still holds the game's id, and the storage functions    *)
(* take the caller and the caller's team as separate arguments.             *)

\* Caller names a call may carry: one on a roster, one on none.
AnyCallers == {"Alice", "Zed"}

StoreAddHand ==
    /\ \E game_id \in GameIds, caller_name \in AnyCallers,
          caller_team \in {"team1", "team2"}, e \in CallEntries,
          notes \in Notes :
         LET r == ResolveLog(e[1], e[2])
         IN  add_hand(game_id, caller_name, caller_team, e[1],
                      r.points_to_record, r.is_euchre, r.other_team_points,
                      notes)
    /\ UNCHANGED <<entry, resolved, pending, calls>>

StoreUpdateHand ==
    /\ \E game_id \in GameIds, hand_id \in HandIds,
          caller_name \in AnyCallers, caller_team \in {"team1", "team2"},
          e \in EditEntries, notes \in Notes :
         LET r == ResolveEdit(e[1], e[2])
         IN  update_hand(hand_id, game_id, caller_name, caller_team, e[1],
                         r.points_to_record, r.is_euchre,
                         r.other_team_points, notes)
    /\ UNCHANGED <<entry, resolved, pending, calls>>

StoreDeleteGame ==
    /\ \E game_id \in GameIds : delete_game(game_id)
    /\ UNCHANGED <<entry, resolved, pending, calls>>

StoreNext ==
    \/ CreateGame
    \/ StoreAddHand
    \/ UndoLastHand
    \/ StoreUpdateHand
    \/ StoreDeleteGame

StoreSpec == Init /\ [][StoreNext]_vars

-----------------------------------------------------------------------------
(* The new-game page: the rosters are typed one player per line, and are    *)
(* sequences of characters here so that the parsing is computed.            *)

\* s.split('\n')
RECURSIVE SplitLines(_)
SplitLines(s) ==
    IF \A i \in 1..Len(s) : s[i] # "\n"
    THEN <<s>>
    ELSE LET i == CHOOSE k \in 1..Len(s) :
                      s[k] = "\n" /\ \A j \in 1..(k - 1) : s[j] # "\n"
         IN  <<SubSeq(s, 1, i - 1)>> \o SplitLines(SubSeq(s, i + 1, Len(s)))

\* [p.strip() for p in players_str.strip().split('\n') if p.strip()]
ParsePlayers(players_str) ==
    LET lines == SplitLines(Strip(players_str))
        stripped == [i \in 1..Len(lines) |-> Strip(lines[i])]
    IN  SelectSeq(stripped, LAMBDA p : p # <<>>)

\* create_game with the names and rosters it is given.
CreateGameWith(team1_name, team2_name, team1_players, team2_players, target_score) ==
    /\ nextGameId \in GameIds
    /\ clock < MaxClock
    /\ games' = [id \in DOMAIN games \cup {nextGameId} |->
                    IF id = nextGameId
                    THEN [NewGame(target_score, clock) EXCEPT
                              !.team1_name = team1_name,
                              !.team2_name = team2_name,
                              !.team1_players = team1_players,
                              !.team2_players = team2_players]
                    ELSE games[id]]
    /\ nextGameId' = nextGameId + 1
    /\ clock' = clock + 1
    /\ last' = Ran("create_game", nextGameId, "ok", "none")
    /\ UNCHANGED hands

\* What is typed into a players field.
PlayersFields ==
    { <<>>,
      <<" ", "\n", " ">>,
      <<"A">>,
      <<"B">>,
      <<"A", "\n", "B">>,
      <<" ", "A", " ", "\n", "\n", "C", "\n">> }

TeamNameFields == {"", "Team 1"}

NewGameForm(team1_name, team1_players_str, team2_name, team2_players_str, target_score) ==
    [team1_name |-> team1_name,
     team1_players_str |-> team1_players_str,
     team2_name |-> team2_name,
     team2_players_str |-> team2_players_str,
     target_score |-> target_score]

NewGameForms ==
    { NewGameForm(n1, p1, n2, p2, t) :
        n1 \in TeamNameFields, p1 \in PlayersFields,
        n2 \in TeamNameFields, p2 \in PlayersFields,
        t \in TargetScores }

\* "Start Game" on the new-game page.
SubmitNewGame ==
    /\ \E f \in NewGameForms :
         LET team1_players == ParsePlayers(f.team1_players_str)
             team2_players == ParsePlayers(f.team2_players_str)
         IN  /\ entry' = Some(f)
             /\ IF team1_players = <<>> \/ team2_players = <<>>
                THEN /\ last' = Ran("new_game", 0, "no players", "none")
                     /\ UNCHANGED <<games, hands, nextGameId, clock>>
                ELSE IF f.team1_name = "" \/ f.team2_name = ""
                THEN /\ last' = Ran("new_game", 0, "no names", "none")
                     /\ UNCHANGED <<games, hands, nextGameId, clock>>
                ELSE CreateGameWith(f.team1_name, f.team2_name,
                                    team1_players, team2_players,
                                    f.target_score)
    /\ UNCHANGED <<resolved, pending, calls>>

NewGameNext == SubmitNewGame

NewGameSpec == Init /\ [][NewGameNext]_vars

-----------------------------------------------------------------------------
(* The scoring rules on their own: one raw entry per behaviour. *)

\* Call values typed into the free-text field of the log-hand form.
FreeTextCalls ==
    { <<"1">>, <<"2">>, <<"1", "0">>, <<"-", "2">>, <<" ", "7">>,
      <<"1", "_", "2">>, <<"P", "a", "s", "s">>, <<"3", ".", "5">>,
      <<"a", "l", "o", "n", "e">> }

Teams == {"team1", "team2"}

RawEntry(form, caller_team, call_value, points) ==
    [form |-> form, caller_team |-> caller_team, call_value |-> call_value,
     points |-> points]

RawEntries ==
    {RawEntry("log", t, c, p) :
        t \in Teams, c \in Range(COMMON_CALL_VALUES) \cup FreeTextCalls,
        p \in 0..MaxPoints}
    \cup
    UNION {{RawEntry(f, t, c, p) : f \in {"add", "edit"}, t \in Teams,
                                   p \in 0..max_val(c)} :
           c \in Range(call_options)}

\* What reaches the ledger: the form's resolution and the deltas that
\* add_hand (update_hand, for the edit form) derives from it.
Outcome(e, r) ==
    LET delta == HandDeltas(e.caller_team, r.points_to_record, r.is_euchre,
                            r.other_team_points)
    IN  [is_euchre |-> r.is_euchre,
         other_team_points |-> r.other_team_points,
         points_to_record |-> r.points_to_record,
         team1_delta |-> delta[1],
         team2_delta |-> delta[2]]

SubmitLog ==
    /\ resolved = None
    /\ entry.form = "log"
    /\ entry.call_value # <<>>
    /\ resolved' = Some(Outcome(entry,
                                ResolveLog(entry.call_value, entry.points)))
    /\ UNCHANGED <<games, hands, nextGameId, clock, last, entry, pending, calls>>

SubmitAdd ==
    /\ resolved = None
    /\ entry.form = "add"
    /\ resolved' = Some(Outcome(entry,
                                ResolveAdd(entry.call_value, entry.points)))
    /\ UNCHANGED <<games, hands, nextGameId, clock, last, entry, pending, calls>>

SubmitEdit ==
    /\ resolved = None
    /\ entry.form = "edit"
    /\ resolved' = Some(Outcome(entry,
                                ResolveEdit(entry.call_value, entry.points)))
    /\ UNCHANGED <<games, hands, nextGameId, clock, last, entry, pending, calls>>

FormsInit ==
    /\ games = <<>>
    /\ hands = {}
    /\ nextGameId = 1
    /\ clock = 0
    /\ last = Ran("none", 0, "none", "none")
    /\ entry \in RawEntries
    /\ resolved = None
    /\ pending = None
    /\ calls = [p \in Sessions |-> Idle]

FormsNext ==
    \/ SubmitLog
    \/ SubmitAdd
    \/ SubmitEdit

FormsSpec == FormsInit /\ [][FormsNext]_vars

-----------------------------------------------------------------------------
(* add_hand one storage access at a time.  The storage module opens no     *)
(* transaction and takes no lock: between two of its reads and writes       *)
(* another session's call may run, and the process may stop.                *)

Call(pc, game_id, args, game, hand_number, cumulative) ==
    [pc |-> pc, game_id |-> game_id, args |-> args, game |-> game,
     hand_number |-> hand_number, cumulative |-> cumulative]

\* A session submits the log-hand form and add_hand is entered.
CallAddHand(p) ==
    /\ calls[p] = Idle
    /\ \E game_id \in DOMAIN games, e \in CallEntries, notes \in Notes :
         \E caller_name \in AllPlayers(games[game_id]) :
           LET r == ResolveLog(e[1], e[2])
               args == [caller_name |-> caller_name,
                        caller_team |-> CallerTeam(games[game_id],
                                                   caller_name),
                        call_value |-> e[1],
                        points_scored |-> r.points_to_record,
                        is_euchre |-> r.is_euchre,
                        other_team_points |-> r.other_team_points,
                        notes |-> notes]
           IN  calls' = [calls EXCEPT
                            ![p] = Call("get_game", game_id, args, None, 0,
                                        <<0, 0>>)]
    /\ UNCHANGED <<games, hands, nextGameId, clock, last, entry, resolved, pending>>

\* game = get_game(game_id); ValueError if there is none.
GetGame(p) ==
    /\ calls[p].pc = "get_game"
    /\ IF calls[p].game_id \in DOMAIN games
       THEN /\ calls' = [calls EXCEPT
                            ![p].pc = "get_hands",
                            ![p].game = Some(games[calls[p].game_id])]
            /\ last' = last
       ELSE /\ calls' = [calls EXCEPT ![p] = Idle]
            /\ last' = Ran("add_hand", calls[p].game_id, "ValueError", "none")
    /\ UNCHANGED <<games, hands, nextGameId, clock, entry, resolved, pending>>

\* hands = get_hands(game_id); hand_number = len(hands) + 1.
GetHands(p) ==
    /\ calls[p].pc = "get_hands"
    /\ calls' = [calls EXCEPT
                    ![p].pc = "add",
                    ![p].hand_number =
                        NextHandNumber(get_hands(calls[p].game_id))]
    /\ UNCHANGED <<games, hands, nextGameId, clock, last, entry, resolved, pending>>

\* The sum of the deltas of the hands of a game as they are stored now.
RECURSIVE StoredDeltas(_, _)
StoredDeltas(S, acc) ==
    IF S = {} THEN acc
    ELSE LET h == CHOOSE x \in S : TRUE
         IN  StoredDeltas(S \ {h},
                          <<acc[1] + h.team1_delta, acc[2] + h.team2_delta>>)

\* InsertHandAs taking the cumulative totals from the hands stored at the
\* time of the insert.
InsertHandAs_FoldAtInsert(p, hand_number) ==
    /\ calls[p].pc = "add"
    /\ Cardinality(hands) < MaxHands
    /\ LET c == calls[p]
           a == c.args
           delta == HandDeltas(a.caller_team, a.points_scored, a.is_euchre,
                               a.other_team_points)
           cumulative ==
               StoredDeltas({h \in hands : h.game_id = c.game_id}, delta)
           hand_data ==
               [id |-> NewHandId,
                game_id |-> c.game_id,
                hand_number |-> hand_number,
                caller_name |-> a.caller_name,
                caller_team |-> a.caller_team,
                call_value |-> a.call_value,
                points_scored |-> a.points_scored,
                is_euchre |-> a.is_euchre,
                other_team_points |-> a.other_team_points,
                team1_delta |-> delta[1],
                team2_delta |-> delta[2],
                team1_cumulative |-> cumulative[1],
                team2_cumulative |-> cumulative[2],
                notes |-> a.notes]
       IN  /\ hands' = hands \cup {hand_data}
           /\ calls' = [calls EXCEPT ![p].pc = "update_game_scores",
                                     ![p].cumulative = cumulative]
    /\ UNCHANGED <<games, nextGameId, clock, last, entry, resolved, pending>>

\* The deltas and cumulative totals, from the game as it was read, and
\* db.collection('hands').add(hand_data), the hand numbered hand_number.
InsertHandAs(p, hand_number) ==
    /\ calls[p].pc = "add"
    /\ Cardinality(hands) < MaxHands
    /\ LET c == calls[p]
           a == c.args
           delta == HandDeltas(a.caller_team, a.points_scored, a.is_euchre,
                               a.other_team_points)
           cumulative == Cumulative(c.game[1], delta)
           hand_data ==
               [id |-> NewHandId,
                game_id |-> c.game_id,
                hand_number |-> hand_number,
                caller_name |-> a.caller_name,
                caller_team |-> a.caller_team,
                call_value |-> a.call_value,
                points_scored |-> a.points_scored,
                is_euchre |-> a.is_euchre,
                other_team_points |-> a.other_team_points,
                team1_delta |-> delta[1],
                team2_delta |-> delta[2],
                team1_cumulative |-> cumulative[1],
                team2_cumulative |-> cumulative[2],
                notes |-> a.notes]
       IN  /\ hands' = hands \cup {hand_data}
           /\ calls' = [calls EXCEPT ![p].pc = "update_game_scores",
                                     ![p].cumulative = cumulative]
    /\ UNCHANGED <<games, nextGameId, clock, last, entry, resolved, pending>>

\* InsertHand counting the hands again at the time of the insert.
InsertHand_CountAtInsert(p) ==
    InsertHandAs(p, NextHandNumber(get_hands(calls[p].game_id)))

\* The insert of add_hand: the hand carries the number computed from the
\* hands read earlier.
InsertHand(p) ==
    InsertHandAs(p, calls[p].hand_number)

\* update_game_scores(game_id, team1_cumulative, team2_cumulative).
UpdateGameScores(p) ==
    /\ calls[p].pc = "update_game_scores"
    /\ calls[p].game_id \in DOMAIN games
    /\ games' = update_game_scores(games, calls[p].game_id,
                                   calls[p].cumulative[1],
                                   calls[p].cumulative[2])
    /\ calls' = [calls EXCEPT ![p].pc = "finish"]
    /\ UNCHANGED <<hands, nextGameId, clock, last, entry, resolved, pending>>

\* The check for the end of the game, finish_game, and the return.
FinishAndReturn(p) ==
    /\ calls[p].pc = "finish"
    /\ calls[p].game_id \in DOMAIN games
    /\ LET c == calls[p]
           winner == FinishCheck(c.game[1], c.cumulative[1], c.cumulative[2])
       IN  /\ IF winner # None
              THEN /\ clock < MaxClock
                   /\ games' = finish_game(games, c.game_id, winner[1], clock)
                   /\ clock' = clock + 1
              ELSE /\ games' = games
                   /\ clock' = clock
           /\ last' = Ran("add_hand", c.game_id, "ok", c.game[1].status)
    /\ calls' = [calls EXCEPT ![p] = Idle]
    /\ UNCHANGED <<hands, nextGameId, entry, resolved, pending>>

\* The call stops where it is: the process is killed, or the storage
\* client raises from the access it was about to make.
Interrupt(p) ==
    /\ calls[p] # Idle
    /\ calls' = [calls EXCEPT ![p] = Idle]
    /\ last' = Ran("add_hand", calls[p].game_id, "interrupted", "none")
    /\ UNCHANGED <<games, hands, nextGameId, clock, entry, resolved, pending>>

\* Two sessions log hands with nothing to serialize them.
RaceNext ==
    \/ CreateGame
    \/ \E p \in Sessions : CallAddHand(p)
    \/ \E p \in Sessions : GetGame(p)
    \/ \E p \in Sessions : GetHands(p)
    \/ \E p \in Sessions : InsertHand(p)
    \/ \E p \in Sessions : UpdateGameScores(p)
    \/ \E p \in Sessions : FinishAndReturn(p)

RaceSpec == Init /\ [][RaceNext]_vars

\* One session logs hands, and a call may stop before it returns.
InterruptNext ==
    \/ CreateGame
    \/ CallAddHand(1)
    \/ GetGame(1)
    \/ GetHands(1)
    \/ InsertHand(1)
    \/ UpdateGameScores(1)
    \/ FinishAndReturn(1)
    \/ Interrupt(1)

InterruptSpec == Init /\ [][InterruptNext]_vars

-----------------------------------------------------------------------------
(* Properties of add_hand calls that overlap or stop *)

\* The pc values of a call that has inserted its hand and not yet returned.
Inserted == {"update_game_scores", "finish"}

\* Two hands of one game carry the same hand_number.
DuplicateHandNumbers(game_id) ==
    \E h, k \in hands :
        /\ h # k
        /\ h.game_id = game_id
        /\ k.game_id = game_id
        /\ h.hand_number = k.hand_number

\* C11. With nothing serializing the calls on a game, two add_hand calls
\* that have both read the same number of hands are given the same
\* hand_number, and once both have inserted the game holds two hands with
\* that number.
C11_RaceDuplicates ==
    \A p, q \in Sessions :
        (/\ p # q
         /\ calls[p].pc \in Inserted
         /\ calls[q].pc \in Inserted
         /\ calls[p].game_id = calls[q].game_id
         /\ calls[p].hand_number = calls[q].hand_number)
        => DuplicateHandNumbers(calls[p].game_id)

\* Both calls have returned and the game is left with two hands numbered 1.
C11_Witness ==
    /\ \A p \in Sessions : calls[p] = Idle
    /\ last.op = "add_hand"
    /\ last.ret = "ok"
    /\ \E g \in DOMAIN games :
         \E h, k \in hands :
            /\ h.id # k.id
            /\ h.game_id = g
            /\ k.game_id = g
            /\ h.hand_number = 1
            /\ k.hand_number = 1

-----------------------------------------------------------------------------
(* Properties of the ledger *)

HandsOf(game_id) == {h \in hands : h.game_id = game_id}

RECURSIVE SumDeltas(_)
SumDeltas(S) ==
    IF S = {} THEN <<0, 0>>
    ELSE LET h == CHOOSE x \in S : TRUE
             rest == SumDeltas(S \ {h})
         IN  <<rest[1] + h.team1_delta, rest[2] + h.team2_delta>>

Max(a, b) == IF a >= b THEN a ELSE b

TargetReached(game) ==
    Max(game.team1_score, game.team2_score) >= game.target_score

\* The cumulative pair of the hand with the highest hand_number, or <<0, 0>>.
LastCumulative(game_id) ==
    LET hs == get_hands(game_id)
    IN  IF hs = <<>> THEN <<0, 0>>
        ELSE <<hs[Len(hs)].team1_cumulative, hs[Len(hs)].team2_cumulative>>

\* C1. Cumulative-fold invariant: the cumulative pair of every stored hand
\* is (0,0) plus the sum of the deltas of the hands of the same game up to
\* and including it, in hand_number order.
C1_CumulativeFold ==
    \A h \in hands :
        <<h.team1_cumulative, h.team2_cumulative>> =
            SumDeltas({k \in HandsOf(h.game_id) :
                          k.hand_number <= h.hand_number})

\* A game holds three hands, the last one with a penalty, after an append.
C1_Witness ==
    /\ last.op = "add_hand"
    /\ \E h \in hands :
         /\ h.hand_number = 3
         /\ h.is_euchre
         /\ h.team1_cumulative # h.team1_delta

\* C2. After every completed append, undo or update, the scores of the game
\* are the cumulative pair of its last hand, or (0,0) without hands.
C2_ScoresAreLastCumulative ==
    \A g \in DOMAIN games :
        <<games[g].team1_score, games[g].team2_score>> = LastCumulative(g)

\* An undo has removed a hand and left one whose pair is not (0,0).
C2_Witness ==
    /\ last.op = "delete_last_hand"
    /\ last.ret = "True"
    /\ \E g \in DOMAIN games :
         /\ HandsOf(g) # {}
         /\ <<games[g].team1_score, games[g].team2_score>> # <<0, 0>>

\* C3. A game is finished exactly when one of its scores has reached the
\* target score.
C3_FinishedIffTargetReached ==
    \A g \in DOMAIN games :
        (games[g].status = "finished") <=> TargetReached(games[g])

\* C6. An append to an active game that brings a cumulative total to the
\* target leaves the game finished, with finished_at stamped and the winner
\* the name of a team whose total has reached the target.
C6_AppendFinishes ==
    [][\A g \in DOMAIN games :
         (/\ games[g].status = "active"
          /\ g \in DOMAIN games'
          /\ last'.op = "add_hand"
          /\ last'.game_id = g
          /\ \E h \in hands' \ hands :
                Max(h.team1_cumulative, h.team2_cumulative)
                    >= games[g].target_score)
         => /\ games'[g].status = "finished"
            /\ games'[g].finished_at # None
            /\ \E h \in hands' \ hands :
                 \/ /\ games'[g].winner = Some(games[g].team1_name)
                    /\ h.team1_cumulative >= games[g].target_score
                 \/ /\ games'[g].winner = Some(games[g].team2_name)
                    /\ h.team2_cumulative >= games[g].target_score]_vars

\* An append to an active game has made team 2 the winner.
C6_Witness ==
    /\ last.op = "add_hand"
    /\ last.was = "active"
    /\ \E g \in DOMAIN games :
         /\ games[g].status = "finished"
         /\ games[g].winner = Some(games[g].team2_name)
         /\ games[g].team2_score >= games[g].target_score

\* The last hand of the game is the one that made it finished: its totals
\* reach the target and those before it do not.
LastHandFinished(g) ==
    LET hs == get_hands(g)
        before == ScoresAfterDelete(hs)
    IN  /\ hs # <<>>
        /\ games[g].status = "finished"
        /\ Max(hs[Len(hs)].team1_cumulative, hs[Len(hs)].team2_cumulative)
              >= games[g].target_score
        /\ Max(before[1], before[2]) < games[g].target_score

\* C7. Undoing the hand that finished a game leaves the game active, with no
\* winner and no finished_at, and with the scores of the hand before it.
C7_UndoReopens ==
    [][\A g \in DOMAIN games :
         (/\ LastHandFinished(g)
          /\ last'.op = "delete_last_hand"
          /\ last'.game_id = g)
         => /\ g \in DOMAIN games'
            /\ last'.ret = "True"
            /\ games'[g].status = "active"
            /\ games'[g].winner = None
            /\ games'[g].finished_at = None
            /\ LET hs == get_hands(g)
               IN  <<games'[g].team1_score, games'[g].team2_score>> =
                      IF Len(hs) > 1
                      THEN <<hs[Len(hs) - 1].team1_cumulative,
                             hs[Len(hs) - 1].team2_cumulative>>
                      ELSE <<0, 0>>]_vars

\* An undo has reopened a finished game that still holds a hand.
C7_Witness ==
    /\ last.op = "delete_last_hand"
    /\ last.was = "finished"
    /\ last.ret = "True"
    /\ \E g \in DOMAIN games :
         /\ games[g].status = "active"
         /\ ~TargetReached(games[g])
         /\ HandsOf(g) # {}

\* C8. A game has a winner exactly when it is finished, and a finished_at
\* exactly when it is finished.
C8_WinnerIffFinished ==
    \A g \in DOMAIN games :
        /\ (games[g].winner # None) <=> (games[g].status = "finished")
        /\ (games[g].finished_at # None) <=> (games[g].status = "finished")

\* A finished game has had a hand added: it is finished a second time, with
\* a winner and a later finished_at.
C8_Witness ==
    /\ last.op = "add_hand"
    /\ last.was = "finished"
    /\ \E g \in DOMAIN games :
         /\ games[g].status = "finished"
         /\ games[g].winner # None
         /\ games[g].finished_at # None
         /\ games[g].finished_at # Some(games[g].created_at + 1)

\* C9. The winner of a finished game is the team with the higher score,
\* team 1 on a tie.
C9_WinnerHasHigherScore ==
    \A g \in DOMAIN games :
        games[g].status = "finished" =>
            /\ games[g].winner = Some(games[g].team1_name)
                  => games[g].team1_score >= games[g].team2_score
            /\ games[g].winner = Some(games[g].team2_name)
                  => games[g].team2_score > games[g].team1_score

\* C10. The hand numbers of a game with k hands are exactly 1..k, and an
\* append gives the new hand the number of hands before it plus one.
C10_HandNumbersDense ==
    /\ [](\A g \in DOMAIN games :
            /\ {h.hand_number : h \in HandsOf(g)} = 1..Cardinality(HandsOf(g))
            /\ \A h, k \in HandsOf(g) :
                  h.hand_number = k.hand_number => h = k)
    /\ [][\A h \in hands' \ hands :
            last'.op = "add_hand" =>
                h.hand_number = Cardinality(HandsOf(h.game_id)) + 1]_vars

\* A hand was appended after an undo: the game holds two hands and the store
\* has handed out its second identifier a second time.
C10_Witness ==
    /\ last.op = "add_hand"
    /\ \E g \in DOMAIN games :
         /\ Cardinality(HandsOf(g)) = 2
         /\ games[g].status = "active"

\* C12. An undo on a game without hands returns False and changes neither
\* a game record nor a hand.
C12_UndoOnEmpty ==
    [][(/\ last'.op = "delete_last_hand"
        /\ HandsOf(last'.game_id) = {})
       => /\ last'.ret = "False"
          /\ games' = games
          /\ hands' = hands]_vars

\* An undo was refused for a game that exists and has no hands, while the
\* other game has some.
C12_Witness ==
    /\ last.op = "delete_last_hand"
    /\ last.ret = "False"
    /\ last.game_id \in DOMAIN games
    /\ HandsOf(last.game_id) = {}
    /\ hands # {}

\* C13. An undo on a game with hands returns True and deletes one hand, the
\* one of that game with the highest hand_number; every other hand, and the
\* record of every other game, is as before.
C13_UndoRemovesLast ==
    [][(/\ last'.op = "delete_last_hand"
        /\ HandsOf(last'.game_id) # {})
       => /\ last'.ret = "True"
          /\ \E h \in HandsOf(last'.game_id) :
                /\ \A k \in HandsOf(last'.game_id) :
                      k.hand_number <= h.hand_number
                /\ hands' = hands \ {h}
          /\ DOMAIN games' = DOMAIN games
          /\ \A g \in DOMAIN games :
                g # last'.game_id => games'[g] = games[g]]_vars

\* An undo has removed the second hand of one game while the other game
\* holds a hand with the same number as the one left.
C13_Witness ==
    /\ last.op = "delete_last_hand"
    /\ last.ret = "True"
    /\ \E h, k \in hands :
         /\ h.game_id = last.game_id
         /\ k.game_id # last.game_id
         /\ h.hand_number = k.hand_number

\* C14. A hand submitted on the log-hand form whose score would reach the
\* target is kept as the pending preview and nothing is stored; a hand the
\* form stores directly never reaches the target; and a game goes from
\* active to finished only in a step that confirms the pending hand of that
\* game.
C14_PreviewBeforeFinish ==
    [][/\ last'.op = "pending_game_end"
            => /\ pending' # None
               /\ games' = games
               /\ hands' = hands
       /\ (/\ last'.op = "add_hand"
           /\ last'.was = "active"
           /\ pending' = pending)
            => \A h \in hands' \ hands :
                  Max(h.team1_cumulative, h.team2_cumulative)
                      < games[h.game_id].target_score
       /\ \A g \in DOMAIN games :
            (/\ games[g].status = "active"
             /\ g \in DOMAIN games'
             /\ games'[g].status = "finished")
            => /\ pending # None
               /\ pending[1].game_id = g
               /\ pending' = None
               /\ last'.op = "add_hand"]_vars

\* A hand that would give team 2 the game is pending: the game is active,
\* its scores are below the target and it holds the hands logged before.
C14_Witness ==
    /\ last.op = "pending_game_end"
    /\ pending # None
    /\ pending[1].winner = "Team 2"
    /\ pending[1].game_id \in DOMAIN games
    /\ LET game == games[pending[1].game_id]
       IN  /\ game.status = "active"
           /\ ~TargetReached(game)
           /\ HandsOf(pending[1].game_id) # {}
           /\ pending[1].winning_score >= game.target_score

\* The scores the preview of a pending hand showed, team 1 first.
PreviewScores(q, game) ==
    IF q.winner = game.team1_name
    THEN <<q.winning_score, q.losing_score>>
    ELSE <<q.losing_score, q.winning_score>>

\* C15. A confirmation appends the pending hand and leaves the game
\* finished, with the winner and the scores of the preview, whatever was
\* logged or undone since the preview.
C15_ConfirmMatchesPreview ==
    [][(/\ pending # None
        /\ pending' = None
        /\ last'.op = "add_hand")
       => LET q == pending[1]
              g == q.game_id
          IN  /\ games'[g].status = "finished"
              /\ games'[g].winner = Some(q.winner)
              /\ <<games'[g].team1_score, games'[g].team2_score>> =
                    PreviewScores(q, games[g])
              /\ \E h \in hands' \ hands :
                    /\ hands' = hands \cup {h}
                    /\ h.game_id = g
                    /\ h.caller_name = q.caller_name
                    /\ h.call_value = q.call_value
                    /\ h.points_scored = q.points_to_record
                    /\ h.is_euchre = q.is_euchre]_vars

\* C16. Cancelling drops the pending hand and changes no game and no hand,
\* and neither did the submission that made the hand pending.
C16_CancelChangesNothing ==
    [][/\ last'.op = "cancel"
            => /\ pending # None
               /\ pending' = None
               /\ games' = games
               /\ hands' = hands
       /\ last'.op = "pending_game_end"
            => /\ games' = games
               /\ hands' = hands]_vars

\* A pending hand was cancelled: the game is active, below the target, and
\* holds the hands logged before.
C16_Witness ==
    /\ last.op = "cancel"
    /\ pending = None
    /\ last.game_id \in DOMAIN games
    /\ games[last.game_id].status = "active"
    /\ ~TargetReached(games[last.game_id])
    /\ Cardinality(HandsOf(last.game_id)) = 2

\* C17. Recalculating a game and then recalculating it again, later, gives
\* the hands and the game records that the first recalculation gave.
C17_RecalculateIdempotent ==
    \A g \in DOMAIN games :
        LET once == Recalculate(games, get_hands(g), g, clock)
            twice == Recalculate(once.games, SortByHandNumber(once.hands), g,
                                 clock + 1)
        IN  twice = once

\* A finished game with three hands whose scores are below the target: the
\* first recalculation repairs it to active.
C17_Witness ==
    \E g \in DOMAIN games :
        /\ games[g].status = "finished"
        /\ ~TargetReached(games[g])
        /\ Cardinality(HandsOf(g)) = 3
        /\ Recalculate(games, get_hands(g), g, clock).games[g].status
              = "active"

\* The fields of a hand that an update may replace, with its deltas.
Declaration(h) ==
    <<h.caller_name, h.caller_team, h.call_value, h.points_scored,
      h.is_euchre, h.other_team_points, h.notes, h.team1_delta,
      h.team2_delta>>

\* C18. An update that succeeds keeps every hand's id, hand_number and
\* game_id, changes the declaration and deltas of the named hand only,
\* leaves the hands of other games alone, and leaves the game with
\* cumulative pairs that are the fold of the deltas, scores that are the
\* last pair, and a status that is finished exactly when the target is
\* reached.
C18_UpdateFrame ==
    [][(last'.op = "update_hand" /\ last'.ret = "True")
       => LET g == last'.game_id
              mine == {h \in hands' : h.game_id = g}
          IN  /\ \A h \in hands : \E k \in hands' :
                    /\ k.id = h.id
                    /\ k.hand_number = h.hand_number
                    /\ k.game_id = h.game_id
                    /\ h.id # last'.hand_id
                          => Declaration(k) = Declaration(h)
                    /\ h.game_id # g => k = h
              /\ Cardinality(hands') = Cardinality(hands)
              /\ \A h \in mine :
                    <<h.team1_cumulative, h.team2_cumulative>> =
                        SumDeltas({k \in mine :
                                      k.hand_number <= h.hand_number})
              /\ \A h \in mine :
                    (\A k \in mine : k.hand_number <= h.hand_number)
                    => <<games'[g].team1_score, games'[g].team2_score>> =
                          <<h.team1_cumulative, h.team2_cumulative>>
              /\ (games'[g].status = "finished")
                    <=> TargetReached(games'[g])
              /\ games'[g].target_score = games[g].target_score]_vars

\* The first of three hands was updated: the pairs of the hands after it
\* have moved and the game is active again.
C18_Witness ==
    /\ last.op = "update_hand"
    /\ last.ret = "True"
    /\ last.was = "finished"
    /\ games[last.game_id].status = "active"
    /\ \E h \in hands :
         /\ h.id = last.hand_id
         /\ h.hand_number = 1
         /\ h.call_value = ALONE
    /\ Cardinality(HandsOf(last.game_id)) = 3

\* C19. An update that names a hand id which no hand of the stated game
\* has returns False and changes no hand and no game record.
C19_UpdateForeignHand ==
    [][(/\ last'.op = "update_hand"
        /\ ~\E h \in hands :
              h.id = last'.hand_id /\ h.game_id = last'.game_id)
       => /\ last'.ret = "False"
          /\ games' = games
          /\ hands' = hands]_vars

\* An update of a finished game was refused: the hand it named is a hand of
\* the other game.
C19_Witness ==
    /\ last.op = "update_hand"
    /\ last.ret = "False"
    /\ last.was = "finished"
    /\ \E h \in hands :
         /\ h.id = last.hand_id
         /\ h.game_id # last.game_id
         /\ h.game_id \in DOMAIN games

\* C20. Once an add_hand call has ended, whether it returned or stopped on
\* the way, every game's scores are the cumulative pair of its last hand
\* and a game whose last hand reaches the target is finished: no hand is
\* stored without the game record that goes with it.
C20_NoPartialCommit ==
    calls[1] = Idle =>
        \A g \in DOMAIN games :
            /\ <<games[g].team1_score, games[g].team2_score>> =
                  LastCumulative(g)
            /\ Max(LastCumulative(g)[1], LastCumulative(g)[2])
                  >= games[g].target_score
               => games[g].status = "finished"

-----------------------------------------------------------------------------
(* Properties of the scoring rules *)

IsNumericCall(call_value) ==
    /\ call_value # ALONE
    /\ call_value # PARTNER_BEST
    /\ ParseInt(call_value).ok

CallerDelta(e, o) ==
    IF e.caller_team = "team1" THEN o.team1_delta ELSE o.team2_delta

OtherDelta(e, o) ==
    IF e.caller_team = "team1" THEN o.team2_delta ELSE o.team1_delta

\* C4. Numeric call n with p points reported, on every form: p < n is an
\* euchre with caller delta -n and other delta 8 - p; p >= n is no euchre,
\* with caller delta p and other delta 0.
C4_NumericCall ==
    (resolved # None /\ IsNumericCall(entry.call_value)) =>
        LET n == ParseInt(entry.call_value).val
            p == entry.points
            o == resolved[1]
        IN  IF p < n
            THEN /\ o.is_euchre
                 /\ CallerDelta(entry, o) = 0 - n
                 /\ OtherDelta(entry, o) = 8 - p
            ELSE /\ ~o.is_euchre
                 /\ CallerDelta(entry, o) = p
                 /\ OtherDelta(entry, o) = 0

-----------------------------------------------------------------------------
(* Properties of the storage layer called directly *)

\* What a caller can read as "the game was not found".
NotFoundReports == {"ValueError", "False"}

\* C21: an operation that names a game id that does not exist (add_hand,
\* delete_last_hand, update_hand, delete_game) reports that the game was not
\* found and writes nothing.
C21_GameNotFound ==
    [][(/\ last'.op \in {"add_hand", "delete_last_hand", "update_hand",
                          "delete_game"}
        /\ last'.game_id \notin DOMAIN games)
       => (/\ last'.ret \in NotFoundReports
           /\ games' = games
           /\ hands' = hands)]_vars

\* The team whose roster has the player, if exactly one has.
RosterTeam(game, caller_name) ==
    LET in1 == caller_name \in Range(game.team1_players)
        in2 == caller_name \in Range(game.team2_players)
    IN  IF in1 /\ ~in2 THEN Some("team1")
        ELSE IF in2 /\ ~in1 THEN Some("team2")
        ELSE None

\* C22: the caller_team of every stored hand is the team whose roster has
\* the hand's caller_name; no hand is stored for a caller on neither roster.
C22_RosterDerivedTeam ==
    \A h \in hands :
        h.game_id \in DOMAIN games
        => RosterTeam(games[h.game_id], h.caller_name) = Some(h.caller_team)

-----------------------------------------------------------------------------
(* Properties of the new-game page *)

\* C23: a game is created only from two rosters that are not empty and
\* share no player, so every stored game has such rosters.
C23_InvalidRoster ==
    \A id \in DOMAIN games :
        /\ games[id].team1_players # <<>>
        /\ games[id].team2_players # <<>>
        /\ Range(games[id].team1_players)
               \cap Range(games[id].team2_players) = {}

-----------------------------------------------------------------------------
(* Properties of deleting a game *)

\* C24: delete_game removes the game and the hands of that game and leaves
\* every other game and hand as it was; at all times the game of every
\* stored hand is a stored game.
C24_DeleteCascades ==
    /\ [](\A h \in hands : h.game_id \in DOMAIN games)
    /\ [][last'.op = "delete_game"
          => LET g == last'.game_id
             IN  /\ DOMAIN games' = DOMAIN games \ {g}
                 /\ \A id \in DOMAIN games' : games'[id] = games[id]
                 /\ \A h \in hands' : h.game_id # g
                 /\ hands' = {h \in hands : h.game_id # g}]_vars

\* A finished game (two hands at least) is deleted while the other game
\* keeps its hands.
C24_Witness ==
    /\ last.op = "delete_game"
    /\ last.was = "finished"
    /\ last.game_id \notin DOMAIN games
    /\ DOMAIN games # {}
    /\ hands # {}

-----------------------------------------------------------------------------
(* Properties of free-text calls and of the stored deltas *)

\* A call typed as free text that is not a number.
IsFreeTextCall(call_value) ==
    /\ call_value # ALONE
    /\ call_value # PARTNER_BEST
    /\ ~ParseInt(call_value).ok

\* C25: a call that is not Alone, not Partner Best and not an integer
\* resolves, whatever the points reported, to no euchre, the points as the
\* caller team's delta and 0 as the other team's delta.
C25_FreeTextCall ==
    (resolved # None /\ IsFreeTextCall(entry.call_value)) =>
        /\ ~resolved[1].is_euchre
        /\ CallerDelta(entry, resolved[1]) = entry.points
        /\ OtherDelta(entry, resolved[1]) = 0

\* "Pass" with 2 points entered for team 2 on the log-hand form.
C25_Witness ==
    /\ resolved # None
    /\ entry.form = "log"
    /\ entry.call_value = <<"P", "a", "s", "s">>
    /\ entry.points = 2
    /\ entry.caller_team = "team2"
    /\ resolved[1].team2_delta = 2
    /\ resolved[1].team1_delta = 0

\* C27: the other_team_points of a hand entered on the log-hand form is
\* not negative, whatever the call value and the points reported.
C27_OtherTeamPointsNonNegative ==
    (resolved # None /\ entry.form = "log") =>
        resolved[1].other_team_points >= 0

\* C28: without an euchre exactly one of the two deltas of a hand is not
\* zero; with an euchre the caller team's delta is negative and the other
\* team's delta is positive.
C28_DeltaSigns ==
    resolved # None =>
        IF resolved[1].is_euchre
        THEN /\ CallerDelta(entry, resolved[1]) < 0
             /\ OtherDelta(entry, resolved[1]) > 0
        ELSE (resolved[1].team1_delta # 0) # (resolved[1].team2_delta # 0)

-----------------------------------------------------------------------------
(* Properties of the scores and of the lifecycle *)

\* C26: the scores of every game are never negative.
C26_ScoresNonNegative ==
    \A id \in DOMAIN games :
        games[id].team1_score >= 0 /\ games[id].team2_score >= 0

\* C29: a game starts active with scores (0,0); a game goes from finished
\* to active only in a delete_last_hand or update_hand step on that game,
\* and add_hand on a finished game leaves it finished.
C29_LifecycleOrdering ==
    [][/\ \A id \in DOMAIN games' \ DOMAIN games :
            /\ games'[id].status = "active"
            /\ games'[id].team1_score = 0
            /\ games'[id].team2_score = 0
       /\ \A id \in DOMAIN games \cap DOMAIN games' :
            (games[id].status = "finished" /\ games'[id].status = "active")
            => /\ last'.op \in {"delete_last_hand", "update_hand"}
               /\ last'.game_id = id
       /\ (/\ last'.op = "add_hand"
           /\ last'.game_id \in DOMAIN games
           /\ games[last'.game_id].status = "finished")
          => games'[last'.game_id].status = "finished"]_vars

\* A hand is added to a finished game and leaves both scores under the
\* target: the game is still finished.
C29_Witness ==
    /\ last.op = "add_hand"
    /\ last.ret = "ok"
    /\ last.was = "finished"
    /\ last.game_id \in DOMAIN games
    /\ games[last.game_id].status = "finished"
    /\ ~TargetReached(games[last.game_id])

-----------------------------------------------------------------------------
(* The worked example: a game to 10 *)

\* The hands of the example as they are stored: team 1 calls "4" and makes
\* 5 points; team 2 goes alone and takes 6 tricks (an euchre that forfeits
\* 8 and gives the other team 8 - 6); team 1 calls "3" and makes 3 points.
ExampleHand(h, k) ==
    /\ h.hand_number = k
    /\ CASE k = 1 -> /\ h.caller_team = "team1"
                     /\ h.call_value = <<"4">>
                     /\ ~h.is_euchre
                     /\ h.points_scored = 5
         [] k = 2 -> /\ h.caller_team = "team2"
                     /\ h.call_value = ALONE
                     /\ h.is_euchre
                     /\ h.other_team_points = 2
         [] k = 3 -> /\ h.caller_team = "team1"
                     /\ h.call_value = <<"3">>
                     /\ ~h.is_euchre
                     /\ h.points_scored = 3

\* The first k hands of game 1 are those of the example.
ExamplePlayed(k) ==
    LET hs == get_hands(1)
    IN  /\ 1 \in DOMAIN games
        /\ games[1].target_score = 10
        /\ Len(hs) >= k
        /\ \A i \in 1..k : ExampleHand(hs[i], i)

\* The example gives the cumulative pairs stated: the game is active after
\* the first and after the second hand, finished and won by team 1 after
\* the third.
ExampleGives(pairs) ==
    LET hs == get_hands(1)
    IN  /\ \A k \in 1..3 :
             ExamplePlayed(k)
             => <<hs[k].team1_cumulative, hs[k].team2_cumulative>> = pairs[k]
        /\ \A k \in 1..2 :
             (ExamplePlayed(k) /\ Len(hs) = k)
             => /\ games[1].status = "active"
                /\ <<games[1].team1_score, games[1].team2_score>> = pairs[k]
        /\ ExamplePlayed(3)
             => /\ games[1].status = "finished"
                /\ games[1].winner = Some(games[1].team1_name)
                /\ <<games[1].team1_score, games[1].team2_score>> = pairs[3]

-----------------------------------------------------------------------------
(* Properties of the lists of games *)

\* A sequence without repetition whose elements are those of S.
ListsExactly(l, S) ==
    /\ Range(l) = S
    /\ Len(l) = Cardinality(S)

\* C31: the finished list holds exactly the finished games, latest
\* finished_at first; the active list holds exactly the active games,
\* latest created_at first.
C31_ListGames ==
    /\ ListsExactly(get_finished_games,
                    {id \in DOMAIN games : games[id].status = "finished"})
    /\ \A i, j \in 1..Len(get_finished_games) :
          i < j => games[get_finished_games[i]].finished_at[1]
                      >= games[get_finished_games[j]].finished_at[1]
    /\ ListsExactly(get_active_games,
                    {id \in DOMAIN games : games[id].status = "active"})
    /\ \A i, j \in 1..Len(get_active_games) :
          i < j => games[get_active_games[i]].created_at
                      >= games[get_active_games[j]].created_at

-----------------------------------------------------------------------------
(* Properties of the stored deltas *)

\* The delta a stored hand gives its caller's team, and the other team.
StoredCallerDelta(h) ==
    IF h.caller_team = "team1" THEN h.team1_delta ELSE h.team2_delta

StoredOtherDelta(h) ==
    IF h.caller_team = "team1" THEN h.team2_delta ELSE h.team1_delta

\* C32: in every stored hand the caller team's delta is points_scored
\* without an euchre and minus points_scored with one, and the other team's
\* delta is 0 without an euchre and other_team_points with one.
C32_DeltaDerivation ==
    \A h \in hands :
        IF h.is_euchre
        THEN /\ StoredCallerDelta(h) = 0 - h.points_scored
             /\ StoredOtherDelta(h) = h.other_team_points
        ELSE /\ StoredCallerDelta(h) = h.points_scored
             /\ StoredOtherDelta(h) = 0

\* An Alone call of team 2 with 6 tricks entered is stored with the 8
\* points it forfeits, not with the 6.
C32_Witness ==
    \E h \in hands :
        /\ h.caller_team = "team2"
        /\ h.call_value = ALONE
        /\ h.is_euchre
        /\ h.points_scored = 8
        /\ h.other_team_points = 2
        /\ h.team2_delta = 0 - 8
        /\ h.team1_delta = 2

-----------------------------------------------------------------------------
(* Properties of an append followed by an undo *)

\* The hand of game_id with the highest hand_number.
LastHandOf(game_id) ==
    get_hands(game_id)[Len(get_hands(game_id))]

\* C33: delete_last_hand right after add_hand on the same game gives back
\* what the game had before the hand: the hands without the new one, the
\* scores the hand was added to, and the status, winner and finished_at of
\* before, also for a game that was finished before the hand.
C33_AppendUndoRoundTrip ==
    [][(/\ last.op = "add_hand"
        /\ last.ret = "ok"
        /\ last'.op = "delete_last_hand"
        /\ last'.game_id = last.game_id)
       => LET g == last.game_id
              h == LastHandOf(g)
          IN  /\ hands' = hands \ {h}
              /\ games'[g].team1_score = h.team1_cumulative - h.team1_delta
              /\ games'[g].team2_score = h.team2_cumulative - h.team2_delta
              /\ games'[g].status = last.was
              /\ (games'[g].winner = None) = (last.was = "active")
              /\ (games'[g].finished_at = None) = (last.was = "active")]_vars

-----------------------------------------------------------------------------
(* Properties of a finished game *)

\* C34: add_hand on a game that is finished leaves the game's winner and
\* finished_at as they were.
C34_WinnerStable ==
    [][(/\ last'.op = "add_hand"
        /\ last'.ret = "ok"
        /\ last'.was = "finished")
       => LET g == last'.game_id
          IN  /\ games'[g].status = "finished"
              /\ games'[g].winner = games[g].winner
              /\ games'[g].finished_at = games[g].finished_at]_vars

-----------------------------------------------------------------------------
(* Properties of the three entry forms taken together *)

\* What an entry resolves to: is_euchre, the caller team's delta, the other
\* team's delta.
Resolved(e, o) ==
    <<o.is_euchre, CallerDelta(e, o), OtherDelta(e, o)>>

\* C35: an entry that all three forms accept (a call of call_options with
\* points up to max_val) resolves on the form it was entered on to what it
\* resolves to on the log-hand, the add-hand and the edit-hand form.
C35_FormsAgree ==
    (/\ resolved # None
     /\ entry.call_value \in Range(call_options)
     /\ entry.points \in 0..max_val(entry.call_value))
    => LET e == entry
           here == Resolved(e, resolved[1])
       IN  /\ here = Resolved(e, Outcome(e, ResolveLog(e.call_value,
                                                      e.points)))
           /\ here = Resolved(e, Outcome(e, ResolveAdd(e.call_value,
                                                      e.points)))
           /\ here = Resolved(e, Outcome(e, ResolveEdit(e.call_value,
                                                       e.points)))

-----------------------------------------------------------------------------
(* Properties of add_hand calls that read the same scores *)

\* A hand of the game whose cumulative pair is not the sum of the deltas
\* up to it.
FoldBroken(game_id) ==
    \E h \in HandsOf(game_id) :
        <<h.team1_cumulative, h.team2_cumulative>> #
            SumDeltas({k \in HandsOf(game_id) :
                          k.hand_number <= h.hand_number})

\* C36: when two add_hand calls on a game have read the same game record
\* and both have inserted their hand, a stored cumulative pair lacks the
\* delta of the other hand: the cumulative-fold invariant is broken; and
\* once both have written the scores, the game's scores are not the sum of
\* the deltas of its hands.
C36_LostUpdate ==
    \A p, q \in Sessions :
        (/\ p # q
         /\ calls[p].pc \in Inserted
         /\ calls[q].pc \in Inserted
         /\ calls[p].game_id = calls[q].game_id
         /\ calls[p].game = calls[q].game)
        => /\ FoldBroken(calls[p].game_id)
           /\ (/\ calls[p].pc = "finish"
               /\ calls[q].pc = "finish"
               /\ calls[p].game_id \in DOMAIN games)
              => <<games[calls[p].game_id].team1_score,
                   games[calls[p].game_id].team2_score>>
                     # SumDeltas(HandsOf(calls[p].game_id))

\* Both calls have returned: the game holds two hands with 5 points each
\* for team 1, numbered 1 and 2, and the scores and the second hand's
\* cumulative pair say 5.
C36_Witness ==
    /\ \A p \in Sessions : calls[p] = Idle
    /\ last.op = "add_hand"
    /\ last.ret = "ok"
    /\ \E g \in DOMAIN games :
         /\ games[g].team1_score = 5
         /\ \E h, k \in HandsOf(g) :
              /\ h.hand_number = 1
              /\ k.hand_number = 2
              /\ h.team1_delta = 5
              /\ k.team1_delta = 5
              /\ k.team1_cumulative = 5

-----------------------------------------------------------------------------
(* Properties of repeated undo *)

\* The run of undos has ended: delete_last_hand has returned False.
UndoRunDone == entry # None /\ entry[1].done

\* C37: a run of undos on a game with k hands ends; delete_last_hand has
\* then returned True k times and False once, and the game has no hands,
\* scores (0,0), status active and no winner.
C37_RepeatedUndo ==
    (entry # None)
    ~> (/\ UndoRunDone
        /\ entry[1].trues = entry[1].k
        /\ last.op = "delete_last_hand"
        /\ last.ret = "False"
        /\ HandsOf(entry[1].game_id) = {}
        /\ games[entry[1].game_id].team1_score = 0
        /\ games[entry[1].game_id].team2_score = 0
        /\ games[entry[1].game_id].status = "active"
        /\ games[entry[1].game_id].winner = None)

\* A finished game with three hands has been undone to nothing.
C37_Witness ==
    /\ UndoRunDone
    /\ entry[1].k = 3
    /\ entry[1].trues = 3
    /\ entry[1].was = "finished"
    /\ last.ret = "False"

-----------------------------------------------------------------------------
(* Properties of the two storage backends *)

\* C38: with the calls serialized, the number the SQLite backend gives the
\* next hand of a game, MAX(hand_number) + 1, is the number the Firestore
\* backend gives it, len(hands) + 1, in every state; and the hand that
\* add_hand stores carries that number.
C38_BackendsAgree ==
    /\ [](\A game_id \in DOMAIN games :
            max_hand(game_id) + 1 = NextHandNumber(get_hands(game_id)))
    /\ [][(last'.op = "add_hand" /\ last'.ret = "ok")
          => \E h \in hands' \ hands :
                /\ h.game_id = last'.game_id
                /\ h.hand_number = max_hand(last'.game_id) + 1]_vars

\* After an undo in one game, both games hold a hand.
C38_Witness ==
    /\ last.op = "delete_last_hand"
    /\ last.ret = "True"
    /\ DOMAIN games = TwoGames
    /\ Len(get_hands(1)) = 1
    /\ Len(get_hands(2)) = 1

=========================================================================
